---- MODULE Spec2Model ----
(***************************************************************************)
(* A model of single_particle_simulation.py: n particles interacting by    *)
(* the Lennard-Jones force inside a box, driven by a pygame host loop.     *)
(*                                                                         *)
(* Numbers.  The program computes in Python floats.  Here a stored real    *)
(* (x, y, speed, an energy) is a fixed-point integer counting 1/Scale      *)
(* units, added and subtracted exactly; the Lennard-Jones formulas, whose  *)
(* intermediate values (sigma**12, r**13) span dozens of decades, are      *)
(* evaluated in decimal floating point [m, e] = m * 10^e with a mantissa   *)
(* below MantMax, rounded to the nearest after every operation, and the     *)
(* result is then stored as fixed point.                                   *)
(*                                                                         *)
(* Angles.  An angle is an integer number of quarter turns (pi/2), not     *)
(* reduced modulo a full turn (the program never reduces it either).  The  *)
(* trigonometric operators are exact on such angles and are defined for    *)
(* axis-aligned vectors only: the placements explored put all particles on *)
(* one row or on one column of the box, which keeps every vector of the    *)
(* run on an axis.  An operator applied outside that domain has no value,  *)
(* which the model checker reports as an error rather than as a result.    *)
(***************************************************************************)
EXTENDS Integers, Sequences, FiniteSets, TLC

VARIABLES
    cfg,               \* the module globals: width, height, epsilon, sigma, ...
    my_particles,      \* the list of Particle objects
    running,           \* the host loop's flag
    kinetic_energy,    \* fixed point
    potential_energy,  \* fixed point
    pc,                \* position of the program
    idx,               \* index of the particle the second for loop is at
    ticks,             \* completed iterations of the host loop
    placed,            \* history: the positions the particles were created at
    call,              \* arguments of a function called on its own
    ret                \* its return value

vars == <<cfg, my_particles, running, kinetic_energy, potential_energy,
          pc, idx, ticks, placed, call, ret>>

---------------------------------------------------------------------------
(* Bounds of the model *)

Scale == 1000          \* fixed-point units per unit of length
MantMax == 10000       \* float mantissas are below this
MaxParticles == 3      \* particles created (number_of_particles is 20)
MaxTicks == 3          \* host loop iterations explored
MaxSpeed == 500        \* largest speed and force magnitude explored
MaxEnergy == 100000    \* largest pair potential explored
MaxSigma == 3          \* lj_force called on its own: sigma in 1..MaxSigma
MaxRNum == 12          \* lj_force called on its own: r = rnum/2, rnum in 1..MaxRNum
MaxBounceWidth == 7    \* bounce called on its own: widths up to this

---------------------------------------------------------------------------
(* Program constants *)

width == 1900
height == 1000
number_of_particles == 20
sigma == 300
particle_size == 10
speed_limit == 10
speed_multiplier == 10
epsilon == [m |-> 1000, e |-> -12]      \* 0.000000001

---------------------------------------------------------------------------
(* Arithmetic *)

Abs(n) == IF n < 0 THEN -n ELSE n

Sign(n) == IF n < 0 THEN -1 ELSE IF n > 0 THEN 1 ELSE 0

\* integer quotient rounded toward zero, d > 0
TDiv(n, d) == Sign(n) * (Abs(n) \div d)

\* integer quotient rounded to the nearest integer, d > 0
RDiv(n, d) == Sign(n) * ((Abs(n) + d \div 2) \div d)

\* n units as fixed point
Fx(n) == n * Scale

\* product of two fixed-point numbers
FxMul(a, b) == Sign(a) * Sign(b) *
    ((Abs(a) \div Scale) * Abs(b) + ((Abs(a) % Scale) * Abs(b)) \div Scale)

RECURSIVE Norm(_, _)
\* the float m * 10^e with its mantissa brought below MantMax
Norm(m, e) ==
    IF m = 0 THEN [m |-> 0, e |-> 0]
    ELSE IF Abs(m) >= MantMax THEN Norm(RDiv(m, 10), e + 1)
    ELSE IF Abs(m) * 10 < MantMax THEN Norm(m * 10, e - 1)
    ELSE [m |-> m, e |-> e]

IntToFloat(n) == Norm(n, 0)

FNeg(a) == [m |-> -a.m, e |-> a.e]

FAbs(a) == [m |-> Abs(a.m), e |-> a.e]

FMul(a, b) == Norm(a.m * b.m, a.e + b.e)

\* b.m # 0; Python raises ZeroDivisionError otherwise
FDiv(a, b) == Norm(Sign(b.m) * RDiv(a.m * 100000, Abs(b.m)), a.e - b.e - 5)

FAdd(a, b) ==
    IF a.m = 0 THEN b
    ELSE IF b.m = 0 THEN a
    ELSE IF a.e - b.e > 5 THEN a
    ELSE IF b.e - a.e > 5 THEN b
    ELSE IF a.e >= b.e THEN Norm(a.m * 10^(a.e - b.e) + b.m, b.e)
    ELSE Norm(a.m + b.m * 10^(b.e - a.e), a.e)

FSub(a, b) == FAdd(a, FNeg(b))

FLeq(a, b) == FSub(a, b).m <= 0

RECURSIVE FPow(_, _)
\* a ** n for an integer n >= 1, by repeated squaring
FPow(a, n) ==
    IF n = 1 THEN a
    ELSE LET h == FPow(a, n \div 2)
         IN  IF n % 2 = 0 THEN FMul(h, h) ELSE FMul(FMul(h, h), a)

\* a fixed-point number as a float
FixedToFloat(x) == FDiv(Norm(x, 0), Norm(Scale, 0))

\* a float stored as fixed point (rounded to the nearest)
FloatToFixed(f) ==
    IF f.e >= 0 THEN f.m * Scale * 10^(f.e)
    ELSE IF -f.e > 9 THEN 0
    ELSE RDiv(f.m * Scale, 10^(-f.e))

\* math.sin, math.cos of an angle in quarter turns
Sin(q) == CASE q % 4 = 0 -> 0 [] q % 4 = 1 -> 1 [] q % 4 = 2 -> 0 [] q % 4 = 3 -> -1

Cos(q) == Sin(q + 1)

\* math.atan2(y, x) in quarter turns, for a vector on an axis
Atan2(y, x) ==
    CASE y = 0 /\ x > 0 -> 0
      [] x = 0 /\ y > 0 -> 1
      [] y = 0 /\ x < 0 -> 2
      [] x = 0 /\ y < 0 -> -1
      [] x = 0 /\ y = 0 -> 0

\* math.hypot(x, y) = sqrt(x*x + y*y), for a vector on an axis
Hypot(x, y) == CASE y = 0 -> Abs(x) [] x = 0 -> Abs(y)

---------------------------------------------------------------------------
(* Helper functions *)

\* add_vector returning the signed sum of the components as the length
AddVectorSignedLength(v1, v2) ==
    LET x_component == Sin(v1[1]) * v1[2] + Sin(v2[1]) * v2[2]
        y_component == Cos(v1[1]) * v1[2] + Cos(v2[1]) * v2[2]
        length == x_component + y_component
        angle == 1 - Atan2(y_component, x_component)
    IN  <<angle, length>>

\* add_vector resolving the second vector along angle1 instead of angle2
AddVectorOneAngle(v1, v2) ==
    LET x_component == Sin(v1[1]) * v1[2] + Sin(v1[1]) * v2[2]
        y_component == Cos(v1[1]) * v1[2] + Cos(v1[1]) * v2[2]
        length == Hypot(x_component, y_component)
        angle == 1 - Atan2(y_component, x_component)
    IN  <<angle, length>>

\* lines 34-44; a vector is <<angle, length>>
AddVector(v1, v2) ==
    LET x_component == Sin(v1[1]) * v1[2] + Sin(v2[1]) * v2[2]
        y_component == Cos(v1[1]) * v1[2] + Cos(v2[1]) * v2[2]
        length == Hypot(x_component, y_component)
        angle == 1 - Atan2(y_component, x_component)
    IN  <<angle, length>>

\* find_angle with the two particles exchanged
FindAngleSwapped(a, b) == Atan2(a.y - b.y, a.x - b.x) + 1

\* lines 46-52
FindAngle(a, b) == Atan2(b.y - a.y, b.x - a.x) + 1

\* lines 54-62, on floats
LjPotential(eps, sig, r) ==
    FMul(FMul(IntToFloat(4), eps),
         FSub(FPow(FDiv(sig, r), 12), FPow(FDiv(sig, r), 6)))

\* lj_force with the opposite sign
LjForceNegated(eps, sig, r) ==
    FMul(FMul(IntToFloat(24), eps),
         FSub(FMul(IntToFloat(2), FDiv(FPow(sig, 12), FPow(r, 13))),
              FDiv(FPow(sig, 6), FPow(r, 7))))

\* lines 65-73, on floats
LjForce(eps, sig, r) ==
    FMul(FMul(IntToFloat(-24), eps),
         FSub(FMul(IntToFloat(2), FDiv(FPow(sig, 12), FPow(r, 13))),
              FDiv(FPow(sig, 6), FPow(r, 7))))

\* lines 76-83: math.sqrt((a.x-b.x)**2 + (a.y-b.y)**2)
ParticleDistance(a, b) == Hypot(a.x - b.x, a.y - b.y)

---------------------------------------------------------------------------
(* Configurations: the values of the module globals (lines 22-29) *)

ProgramConfig ==
    [width |-> width, height |-> height, epsilon |-> epsilon, sigma |-> sigma,
     particle_size |-> particle_size, speed_limit |-> speed_limit,
     speed_multiplier |-> speed_multiplier]

\* the globals of the two-particle scenario: width = height = 700,
\* epsilon = 0.001, sigma = 250
ScenarioConfig ==
    [ProgramConfig EXCEPT !.width = 700, !.height = 700,
                          !.epsilon = [m |-> 1000, e |-> -6], !.sigma = 250]

Configs == {ProgramConfig, ScenarioConfig}

---------------------------------------------------------------------------
(* class Particle *)

\* lines 99-112, with speed and angle as lines 156-157 set them again
NewParticle(x, y, size, color) ==
    [x |-> Fx(x), y |-> Fx(y), size |-> size, color |-> color,
     thickness |-> 0, speed |-> 0, angle |-> 0]

RECURSIVE BounceXHigh(_, _)
\* lines 121-123
BounceXHigh(p, w) ==
    IF p.x > Fx(w - p.size)
    THEN BounceXHigh([p EXCEPT !.x = 2 * Fx(w - p.size) - p.x,
                               !.angle = -p.angle], w)
    ELSE p

RECURSIVE BounceXLow(_)
\* lines 124-126
BounceXLow(p) ==
    IF p.x < Fx(p.size)
    THEN BounceXLow([p EXCEPT !.x = 2 * Fx(p.size) - p.x, !.angle = -p.angle])
    ELSE p

RECURSIVE BounceYHigh(_, _)
\* lines 129-131; pi is two quarter turns
BounceYHigh(p, h) ==
    IF p.y > Fx(h - p.size)
    THEN BounceYHigh([p EXCEPT !.y = 2 * Fx(h - p.size) - p.y,
                               !.angle = 2 - p.angle], h)
    ELSE p

RECURSIVE BounceYLow(_)
\* lines 132-134
BounceYLow(p) ==
    IF p.y < Fx(p.size)
    THEN BounceYLow([p EXCEPT !.y = 2 * Fx(p.size) - p.y, !.angle = 2 - p.angle])
    ELSE p

\* bounce losing half of the speed at a wall
BounceInelastic(p, w, h) ==
    LET q == BounceYLow(BounceYHigh(BounceXLow(BounceXHigh(p, w)), h))
    IN  IF q = p THEN p ELSE [q EXCEPT !.speed = q.speed \div 2]

\* lines 118-134
Bounce(p, w, h) == BounceYLow(BounceYHigh(BounceXLow(BounceXHigh(p, w)), h))

\* lines 136-139
Move(p, mult) ==
    [p EXCEPT !.x = p.x + Sin(p.angle) * p.speed * mult,
              !.y = p.y - Cos(p.angle) * p.speed * mult]

\* size <= x <= width - size and size <= y <= height - size
InBounds(p, w, h) ==
    /\ Fx(p.size) <= p.x /\ p.x <= Fx(w - p.size)
    /\ Fx(p.size) <= p.y /\ p.y <= Fx(h - p.size)

---------------------------------------------------------------------------
(* The force pass, lines 173-178 *)

RECURSIVE PairsFrom(_, _, _)
\* the pairs <<i, j>>, i < j <= n, from <<i, j>> on, in lexicographic order
PairsFrom(i, j, n) ==
    IF i >= n THEN <<>>
    ELSE IF j > n THEN PairsFrom(i + 1, i + 2, n)
    ELSE <<<<i, j>>>> \o PairsFrom(i, j + 1, n)

\* itertools.combinations(my_particles, 2), as index pairs
Combinations(n) == PairsFrom(1, 2, n)

Representable(f, limit) == FLeq(FAbs(f), IntToFloat(limit))

\* the body of the for loop for the pair pr, on the pass state
\* st = [ps: the particles, pot: potential_energy, err: ZeroDivisionError
\* raised, fits: every value so far is within the model's range]
PairStep(st, pr) ==
    LET a == st.ps[pr[1]]
        b == st.ps[pr[2]]
        r == ParticleDistance(a, b)
    IN  IF r = 0 THEN [st EXCEPT !.err = TRUE]
        ELSE
        LET rf == FixedToFloat(r)
            force == LjForce(cfg.epsilon, IntToFloat(cfg.sigma), rf)
            potential == LjPotential(cfg.epsilon, IntToFloat(cfg.sigma), rf)
        IN  IF ~(Representable(force, MaxSpeed) /\ Representable(potential, MaxEnergy))
            THEN [st EXCEPT !.fits = FALSE]
            ELSE
            LET temp_lj_force == FloatToFixed(force)
                temp_angle == FindAngle(a, b)
                va == AddVector(<<a.angle, a.speed>>, <<temp_angle, temp_lj_force>>)
                vb == AddVector(<<b.angle, b.speed>>, <<temp_angle + 2, temp_lj_force>>)
            IN  [st EXCEPT !.ps = [st.ps EXCEPT ![pr[1]] = [a EXCEPT !.angle = va[1], !.speed = va[2]],
                                                ![pr[2]] = [b EXCEPT !.angle = vb[1], !.speed = vb[2]]],
                           !.pot = st.pot + FloatToFixed(potential),
                           !.fits = va[2] <= Fx(MaxSpeed) /\ vb[2] <= Fx(MaxSpeed)]

RECURSIVE RunPairs(_, _)
\* the for loop over the pairs, in the order given; it stops where it raises
RunPairs(st, pairs) ==
    IF pairs = <<>> \/ st.err \/ ~st.fits THEN st
    ELSE RunPairs(PairStep(st, Head(pairs)), Tail(pairs))

ForcePass(ps, pot, pairs) ==
    RunPairs([ps |-> ps, pot |-> pot, err |-> FALSE, fits |-> TRUE], pairs)

---------------------------------------------------------------------------
(* The program, lines 141-189 *)

Colors == {<<255, 0, 0>>, <<0, 0, 255>>}

\* coordinates drawn by random.randint(size, width-size) and
\* random.randint(size, height-size): a few of them
PlaceCoords(c) == IF c = ScenarioConfig THEN {300, 400, 485} ELSE {440, 500, 555}

NoCall == [epsilon |-> epsilon, sigma |-> 0, rnum |-> 0]

NoRet == [m |-> 0, e |-> 0]

\* lines 147-161: all particles on the row y = height/2 or on the column
\* x = width/2, and all of one colour
Init ==
    /\ cfg \in Configs
    /\ \E n \in 2..MaxParticles, row \in BOOLEAN :
         \E at \in [1..n -> PlaceCoords(cfg)], color \in Colors :
            /\ placed = [i \in 1..n |->
                          IF row THEN <<at[i], cfg.height \div 2>>
                                 ELSE <<cfg.width \div 2, at[i]>>]
            /\ my_particles = [i \in 1..n |->
                  NewParticle(placed[i][1], placed[i][2], cfg.particle_size, color)]
    /\ running = TRUE
    /\ kinetic_energy = 0
    /\ potential_energy = 0
    /\ pc = "while"
    /\ idx = 0
    /\ ticks = 0
    /\ call = NoCall
    /\ ret = NoRet

\* the loop continuing whatever running is
LoopEnterAlways ==
    /\ pc = "while"
    /\ ticks < MaxTicks
    /\ kinetic_energy' = 0
    /\ potential_energy' = 0
    /\ pc' = "events"
    /\ UNCHANGED <<cfg, my_particles, running, idx, ticks, placed, call, ret>>

\* lines 162-163: the loop continues
LoopEnter ==
    /\ pc = "while"
    /\ running
    /\ ticks < MaxTicks
    /\ kinetic_energy' = 0
    /\ potential_energy' = 0
    /\ pc' = "events"
    /\ UNCHANGED <<cfg, my_particles, running, idx, ticks, placed, call, ret>>

\* line 162: the loop ends
LoopExit ==
    /\ pc = "while"
    /\ ~running
    /\ pc' = "done"
    /\ UNCHANGED <<cfg, my_particles, running, kinetic_energy, potential_energy,
                   idx, ticks, placed, call, ret>>

\* lines 165-167: the events of this iteration hold a QUIT or do not
PollEvents ==
    /\ pc = "events"
    /\ \E quit \in BOOLEAN : running' = IF quit THEN FALSE ELSE running
    /\ pc' = "forces"
    /\ UNCHANGED <<cfg, my_particles, kinetic_energy, potential_energy,
                   idx, ticks, placed, call, ret>>

\* lines 173-178, no pair at distance 0
CalculateForces ==
    /\ pc = "forces"
    /\ LET st == ForcePass(my_particles, potential_energy,
                           Combinations(Len(my_particles)))
       IN  /\ ~st.err
           /\ st.fits
           /\ my_particles' = st.ps
           /\ potential_energy' = st.pot
    /\ pc' = "move"
    /\ idx' = 1
    /\ UNCHANGED <<cfg, running, kinetic_energy, ticks, placed, call, ret>>

\* lines 173-178, lj_force raises ZeroDivisionError at a pair at distance 0
CalculateForcesRaises ==
    /\ pc = "forces"
    /\ LET st == ForcePass(my_particles, potential_energy,
                           Combinations(Len(my_particles)))
       IN  /\ st.err
           /\ my_particles' = st.ps
           /\ potential_energy' = st.pot
    /\ pc' = "error"
    /\ UNCHANGED <<cfg, running, kinetic_energy, idx, ticks, placed, call, ret>>

\* lines 181-183
MoveParticle ==
    /\ pc = "move"
    /\ kinetic_energy' = kinetic_energy +
          FxMul(my_particles[idx].speed, my_particles[idx].speed) \div 2
    /\ my_particles' = [my_particles EXCEPT
                          ![idx] = Move(my_particles[idx], cfg.speed_multiplier)]
    /\ pc' = "bounce"
    /\ UNCHANGED <<cfg, running, potential_energy, idx, ticks, placed, call, ret>>

\* lines 184-189
BounceParticle ==
    /\ pc = "bounce"
    /\ my_particles' = [my_particles EXCEPT
                          ![idx] = Bounce(my_particles[idx], cfg.width, cfg.height)]
    /\ IF idx < Len(my_particles)
       THEN /\ idx' = idx + 1
            /\ pc' = "move"
            /\ ticks' = ticks
       ELSE /\ idx' = 0
            /\ pc' = "while"
            /\ ticks' = ticks + 1
    /\ UNCHANGED <<cfg, running, kinetic_energy, potential_energy, placed, call, ret>>

Next ==
    \/ LoopEnter
    \/ LoopExit
    \/ PollEvents
    \/ CalculateForces
    \/ CalculateForcesRaises
    \/ MoveParticle
    \/ BounceParticle

Spec == Init /\ [][Next]_vars

---------------------------------------------------------------------------
(* Particle.bounce called on its own, on a particle anywhere *)

\* widths and heights from MaxBounceWidth - 2 up, every size with
\* 2*size < width and 2*size < height, and the program's own globals
BounceConfigs ==
    {ProgramConfig} \cup
    {[ProgramConfig EXCEPT !.width = w, !.height = h, !.particle_size = s] :
        <<w, h, s>> \in {t \in ((MaxBounceWidth - 2)..MaxBounceWidth)
                               \X ((MaxBounceWidth - 2)..MaxBounceWidth) \X (1..3) :
                            2 * t[3] < t[1] /\ 2 * t[3] < t[2]}}

\* positions along an axis of length bound: inside, on the walls, just
\* outside, and many box lengths outside (fixed point)
BouncePositions(bound, s) ==
    {Fx(-10 * bound), Fx(-bound) - Scale \div 2, Fx(s) - 1, Fx(s),
     Fx(bound - s), Fx(bound - s) + 1, Fx(2 * bound), Fx(10 * bound)}

InitBounce ==
    /\ cfg \in BounceConfigs
    /\ \E x \in BouncePositions(cfg.width, cfg.particle_size),
          y \in BouncePositions(cfg.height, cfg.particle_size),
          angle \in {0, 1} :
          my_particles = <<[NewParticle(0, 0, cfg.particle_size, <<0, 0, 0>>)
                              EXCEPT !.x = x, !.y = y, !.angle = angle, !.speed = Fx(1)]>>
    /\ running = TRUE
    /\ kinetic_energy = 0
    /\ potential_energy = 0
    /\ pc = "bounce_call"
    /\ idx = 1
    /\ ticks = 0
    /\ placed = <<>>
    /\ call = NoCall
    /\ ret = NoRet

BounceCall ==
    /\ pc = "bounce_call"
    /\ my_particles' = <<Bounce(my_particles[1], cfg.width, cfg.height)>>
    /\ pc' = "bounce_ret"
    /\ UNCHANGED <<cfg, running, kinetic_energy, potential_energy, idx, ticks,
                   placed, call, ret>>

SpecBounce == InitBounce /\ [][BounceCall]_vars

---------------------------------------------------------------------------
(* lj_force called on its own, with r = rnum/2 *)

InitLJ ==
    /\ call \in [epsilon : {epsilon, ScenarioConfig.epsilon},
                 sigma : 1..MaxSigma, rnum : 1..MaxRNum]
    /\ ret = NoRet
    /\ pc = "lj_call"
    /\ cfg = ProgramConfig
    /\ my_particles = <<>>
    /\ running = TRUE
    /\ kinetic_energy = 0
    /\ potential_energy = 0
    /\ idx = 0
    /\ ticks = 0
    /\ placed = <<>>

LjCall ==
    /\ pc = "lj_call"
    /\ ret' = LjForce(call.epsilon, IntToFloat(call.sigma),
                      FDiv(IntToFloat(call.rnum), IntToFloat(2)))
    /\ pc' = "lj_ret"
    /\ UNCHANGED <<cfg, my_particles, running, kinetic_energy, potential_energy,
                   idx, ticks, placed, call>>

SpecLJ == InitLJ /\ [][LjCall]_vars

---------------------------------------------------------------------------
(* Properties *)

N == Len(my_particles)

\* the velocity vector (sin(angle)*speed, cos(angle)*speed) of a particle
Velocity(p) == <<Sin(p.angle) * p.speed, Cos(p.angle) * p.speed>>

\* the force pass of the current state, in the program's order
PassNow == ForcePass(my_particles, potential_energy, Combinations(N))

\* the orderings of a sequence of pairs
Orderings(pairs) ==
    {[i \in 1..Len(pairs) |-> pairs[f[i]]] : f \in Permutations(1..Len(pairs))}

\* the force the pass computes for the pair of particles i and j
PairForce(i, j) ==
    FloatToFixed(LjForce(cfg.epsilon, IntToFloat(cfg.sigma),
        FixedToFloat(ParticleDistance(my_particles[i], my_particles[j]))))

\* C1: after every tick every particle lies inside the box:
\* size <= x <= width - size and size <= y <= height - size.
InsideAfterEveryTick ==
    pc = "while" => \A i \in 1..N : InBounds(my_particles[i], cfg.width, cfg.height)

\* C2: bounce, called with any position and any bounds and size with
\* 2*size < width and 2*size < height, leaves the particle inside the box.
BounceLeavesInside ==
    pc = "bounce_ret" => InBounds(my_particles[1], cfg.width, cfg.height)

\* r = rnum/2 compared with the Lennard-Jones minimum sigma * 2^(1/6):
\* r^6 against 2 * sigma^6, that is rnum^6 against 128 * sigma^6
BelowMinimum == call.rnum ^ 6 < 128 * call.sigma ^ 6

AboveMinimum == call.rnum ^ 6 > 128 * call.sigma ^ 6

\* the x coordinate, after the force pass and move of one tick, of a
\* particle at rest at x = 0 that another particle at distance r to its right
\* acts on with a force of the sign of the returned value
PushedTo ==
    LET a == NewParticle(0, 0, 1, <<0, 0, 0>>)
        b == NewParticle(call.rnum, 0, 1, <<0, 0, 0>>)
        v == AddVector(<<a.angle, a.speed>>, <<FindAngle(a, b), Sign(ret.m)>>)
    IN  Move([a EXCEPT !.angle = v[1], !.speed = v[2]], speed_multiplier).x

\* C3 as stated: lj_force is positive for r below the minimum, negative
\* above it and zero at it, and a positive value pushes the particles apart.
LjForcePositiveBelowMinimum ==
    pc = "lj_ret" =>
        /\ BelowMinimum => ret.m > 0
        /\ AboveMinimum => ret.m < 0
        /\ ~BelowMinimum /\ ~AboveMinimum => ret.m = 0
        /\ ret.m > 0 => PushedTo < 0

\* C3 amended: lj_force is negative for r below the minimum, positive above
\* it and zero at it, and a negative value pushes the particles apart (a
\* positive one pulls them together).
LjForceNegativeBelowMinimum ==
    pc = "lj_ret" =>
        /\ BelowMinimum => ret.m < 0
        /\ AboveMinimum => ret.m > 0
        /\ ~BelowMinimum /\ ~AboveMinimum => ret.m = 0
        /\ ret.m < 0 => PushedTo < 0
        /\ ret.m > 0 => PushedTo > 0

LjForceBelowMinimumReturned == pc = "lj_ret" /\ BelowMinimum /\ ret.m < 0

\* the two-particle scenario has run its first tick
ScenarioAfterOneTick ==
    /\ cfg = ScenarioConfig
    /\ placed = <<<<300, 350>>, <<400, 350>>>>
    /\ ticks = 1
    /\ pc = "while"

\* C4: in the two-particle scenario one tick leaves both particles with
\* speed > 0, each moving away from the other, and farther apart than the
\* 100 they started at.
ScenarioSeparates ==
    ScenarioAfterOneTick =>
        LET a == my_particles[1]
            b == my_particles[2]
        IN  /\ a.speed > 0 /\ b.speed > 0
            /\ a.x < b.x
            /\ Velocity(a)[1] < 0 /\ Velocity(b)[1] > 0
            /\ a.x < Fx(300) /\ b.x > Fx(400)
            /\ ParticleDistance(a, b) > Fx(100)

ScenarioRan == ScenarioAfterOneTick /\ my_particles[1].speed > 0

\* C5: no two particles processed as a pair have coincident centres, so
\* no tick ends in an error.
NoCoincidentPair ==
    /\ pc # "error"
    /\ pc = "forces" =>
          \A i, j \in 1..N : i < j => ParticleDistance(my_particles[i], my_particles[j]) > 0

\* C6: every particle's stored speed is >= 0 in every state.
SpeedNeverNegative == \A i \in 1..N : my_particles[i].speed >= 0

\* a force pass that was handed a negative force magnitude has just ended
\* (the positions are still those the pass read)
NegativeForceApplied ==
    /\ pc = "move" /\ idx = 1
    /\ \E i, j \in 1..N :
          /\ i < j
          /\ PairForce(i, j) < 0
          /\ my_particles[i].speed > 0

\* C7 as stated: once a quit event has been observed no step of a tick
\* (force pass, move, bounce) is taken.
NoTickAfterQuit == [][~running => pc' \in {"while", "done"}]_vars

\* C7 amended: once a quit event has been observed the loop starts no
\* further iteration and ends at its next test of running (the tick of the
\* iteration that observed the event still runs); while none has been
\* observed the loop's test starts the next iteration.
QuitEndsLoopAtNextTest ==
    [][/\ ~running => ~running' /\ pc' # "events"
       /\ pc = "while" /\ ~running => pc' = "done"
       /\ pc = "while" /\ running => pc' = "events"
       /\ pc = "done" => pc' = "done"]_vars

TickRunsAfterQuit == ~running /\ pc = "move" /\ idx = 1

\* C8: the speed a particle is moved with is below speed_limit + 10.
MovedSpeedBelowLimit ==
    pc = "move" => my_particles[idx].speed < Fx(cfg.speed_limit + 10)

Fixed(ps, i) == <<ps[i].size, ps[i].color, ps[i].thickness>>

====
